---- MODULE Spec2Model ----
(***************************************************************************)
(* Model of module/ffmedia.c: the MediaState shared between the caller     *)
(* thread (media_open / media_start_end / media_start / media_close), the  *)
(* detached decode thread (decode_thread) and the audio callback           *)
(* (media_read_audio).                                                     *)
(*                                                                         *)
(* Time is counted in sub-sample ticks: one output sample lasts SubUnits   *)
(* ticks, so a skip value need not fall on a sample boundary.  Sample i of *)
(* a frame that starts at tick s has source timestamp s + i * SubUnits.    *)
(*                                                                         *)
(* A critical section that contains no wait is one atomic step guarded by  *)
(* the lock being free; media_read_audio, which waits and loops under the  *)
(* lock, holds it across steps.                                            *)
(***************************************************************************)
EXTENDS Integers, Sequences, FiniteSets, TLC

\* ---------------------------------------------------------------- bounds
MaxPackets == 1          \* packets in the container
MaxPulls == 2            \* calls of media_read_audio
MaxCloses == 2           \* calls of media_close
FrameSamples == 2        \* nb_samples of every converted frame
SubUnits == 2            \* ticks per output sample
audio_sample_rate == 1   \* output samples per second (media_init's rate)
MaxRoute == 4            \* packets in the container when read_packet runs on its own
MaxOddPulls == 4         \* calls of media_read_audio by a consumer asking for half samples

\* ------------------------------------------------------ program constants
BPS == 4
audio_queue_target_seconds == 2
audio_stream == 0
video_stream == 1
OtherStream == 2
\* unsigned int arithmetic wraps; the model keeps 16 of its 32 bits.
UINT == 256 * 256

\* ------------------------------------------------------------ input sets
\* Byte counts media_read_audio is called with: half a sample, and one frame
\* plus one sample.
PullLens == {BPS \div 2, BPS * FrameSamples + BPS}
\* Values of start for media_start_end: none, inside the first sample, on a
\* sample boundary inside the first frame, and exactly the end of the first
\* frame.
Skips == {0, 1, SubUnits, FrameSamples * SubUnits}
\* Values of end for media_start_end(s, end): 0 (play to the end), or one
\* sample when nothing is skipped.
Ends(s) == IF s = 0 THEN {0, SubUnits} ELSE {0}
StreamIndexes == {audio_stream, video_stream, OtherStream}
\* What av_read_frame may return over its next calls: up to n packets.
Futures(n) == UNION {[1 .. k -> StreamIndexes] : k \in 0 .. n}

VARIABLES
    container,            \* how many packets av_read_frame has returned, per stream
    eof,                  \* av_read_frame has reported the end of the container
    seekBase,             \* number of audio frames that precede the seek point
    started, ready, needs_decode, quit,
    skip, audio_finished, video_finished,
    audio_context, video_context,
    audio_packet_queue, video_packet_queue,
    audio_queue, audio_queue_samples,
    audio_out_frame, audio_out_index,
    audio_duration, audio_read_samples,
    lock,                 \* holder of MediaState.lock: "none" or "pull"
    startCalled,
    dpc,                  \* decode thread: position inside decode_thread
    converted_frame,      \* decode_audio's local frame awaiting the skip policy
    ppc, len, rv,         \* audio callback: position, remaining len, result
    freed,                \* av_free(ms) has run
    deallocLog,           \* one record per execution of deallocate
    uaf,                  \* threads that used the MediaState after deallocate
    closeCalls, pulls,
    cfgDuration,          \* audio_duration as media_start_end computed it
    pendingCycle,         \* the decode thread cleared a set needs_decode and has
                          \* not yet entered the production cycle it asks for
    totalBytes            \* sum of the values media_read_audio returned

vars == <<container, eof, seekBase, started, ready, needs_decode, quit, skip,
          audio_finished, video_finished, audio_context, video_context,
          audio_packet_queue, video_packet_queue, audio_queue,
          audio_queue_samples, audio_out_frame, audio_out_index,
          audio_duration, audio_read_samples, lock, startCalled, dpc,
          converted_frame, ppc, len, rv, freed, deallocLog, uaf,
          closeCalls, pulls, cfgDuration, pendingCycle, totalBytes>>

mediaVars == <<started, ready, needs_decode, quit, skip, audio_finished,
               video_finished, audio_context, video_context,
               audio_packet_queue, video_packet_queue, audio_queue,
               audio_queue_samples, audio_out_frame, audio_out_index,
               audio_duration, audio_read_samples>>
containerVars == <<container, eof, seekBase>>
callerVars == <<startCalled, closeCalls, cfgDuration>>
decodeVars == <<dpc, converted_frame, pendingCycle>>
pullVars == <<ppc, len, rv, pulls, totalBytes>>
ghostVars == <<freed, deallocLog, uaf>>

\* ------------------------------------------------------------- helpers
NoFrame == [start |-> -1, nb_samples |-> 0]

\* C's (int) conversion of a quotient: truncation toward zero.
TruncDiv(a, b) == IF a >= 0 THEN a \div b ELSE -((-a) \div b)

\* decode_audio fills the queue up to this many samples.
Target == audio_queue_target_seconds * audio_sample_rate

\* The frame decoded from audio packet pkt: audio frames follow one another
\* without gaps, the first one read being frame number base.
FrameOf(base, pkt) ==
    [start |-> (base + pkt.pts) * FrameSamples * SubUnits,
     nb_samples |-> FrameSamples]
FrameEnd(f) == f.start + f.nb_samples * SubUnits

RECURSIVE SumSamples(_)
SumSamples(q) == IF q = <<>> THEN 0 ELSE Head(q).nb_samples + SumSamples(Tail(q))

\* SDL_CondBroadcast: every thread blocked in SDL_CondWait becomes runnable and
\* has to take the lock again.
WakePull(p) == IF p = "p_wait" THEN "p_woken" ELSE p
WakeDecode(d) == IF d = "d_wait" THEN "d_woken"
                 ELSE IF d = "d_finwait" THEN "d_finwoken" ELSE d

\* A step of thread t that reads or writes the MediaState: after av_free(ms)
\* it is a use after free.
Touch(t) == uaf' = IF freed THEN uaf \cup {t} ELSE uaf

Init ==
    /\ container = [read |-> 0, audio |-> 0, video |-> 0]
    /\ eof = FALSE /\ seekBase = 0
    /\ started = FALSE /\ ready = FALSE /\ needs_decode = FALSE /\ quit = FALSE
    /\ skip = 0
    /\ audio_finished = FALSE /\ video_finished = FALSE
    /\ audio_context = FALSE /\ video_context = FALSE
    /\ audio_packet_queue = <<>> /\ video_packet_queue = <<>>
    /\ audio_queue = <<>> /\ audio_queue_samples = 0
    /\ audio_out_frame = NoFrame /\ audio_out_index = 0
    /\ audio_duration = 0 /\ audio_read_samples = 0
    /\ lock = "none"
    /\ startCalled = FALSE
    /\ dpc = "none" /\ converted_frame = NoFrame /\ pendingCycle = FALSE
    /\ ppc = "idle" /\ len = 0 /\ rv = 0
    /\ freed = FALSE /\ deallocLog = <<>> /\ uaf = {}
    /\ closeCalls = 0 /\ pulls = 0
    /\ cfgDuration = 0 /\ totalBytes = 0

\* ------------------------------------------------------- pure functions

\* enqueue_frame / dequeue_frame: the FIFO linked through AVFrame.opaque.
enqueue_frame(fq, frame) == Append(fq, frame)

\* dequeue_frame that returns the first frame and leaves it queued.
dequeue_frame_Keeps(fq) == IF fq = <<>> THEN [rv |-> NoFrame, fq |-> fq]
                           ELSE [rv |-> Head(fq), fq |-> fq]

dequeue_frame(fq) == IF fq = <<>> THEN [rv |-> NoFrame, fq |-> fq]
                     ELSE [rv |-> Head(fq), fq |-> Tail(fq)]

\* enqueue_packet linking the new packet in front of the list.
enqueue_packet_Front(pq, pkt) == <<pkt>> \o pq

\* enqueue_packet: the packet FIFO.
enqueue_packet(pq, pkt) == Append(pq, pkt)

\* read_packet: take a packet from the target queue, reading the container
\* and routing what it returns until the target queue yields one or
\* av_read_frame fails.  ctr is what av_read_frame returns during the call (a
\* sequence of stream indexes), pos the index of the next one, cnt the
\* packets returned so far.  A packet carries its stream and its number in
\* that stream; NoPacket is the empty sentinel (data NULL, size 0).
NoPacket == [stream_index |-> -1, pts |-> 0]

RECURSIVE read_packet(_, _, _, _, _, _)
read_packet(target, apq, vpq, ctr, pos, cnt) ==
    LET pq == IF target = audio_stream THEN apq ELSE vpq IN
    IF pq # <<>>
    THEN [ok |-> TRUE, pkt |-> Head(pq), pos |-> pos, cnt |-> cnt,
          apq |-> IF target = audio_stream THEN Tail(apq) ELSE apq,
          vpq |-> IF target = audio_stream THEN vpq ELSE Tail(vpq)]
    ELSE IF pos > Len(ctr)
    THEN [ok |-> FALSE, pkt |-> NoPacket, pos |-> pos, cnt |-> cnt,
          apq |-> apq, vpq |-> vpq]
    ELSE IF ctr[pos] = video_stream
    THEN read_packet(target, apq,
                     enqueue_packet(vpq, [stream_index |-> ctr[pos], pts |-> cnt.video]),
                     ctr, pos + 1,
                     [cnt EXCEPT !.read = @ + 1, !.video = @ + 1])
    ELSE IF ctr[pos] = audio_stream
    THEN read_packet(target,
                     enqueue_packet(apq, [stream_index |-> ctr[pos], pts |-> cnt.audio]),
                     vpq, ctr, pos + 1,
                     [cnt EXCEPT !.read = @ + 1, !.audio = @ + 1])
    ELSE read_packet(target, apq, vpq, ctr, pos + 1, [cnt EXCEPT !.read = @ + 1])

\* What av_read_frame may return during one call of read_packet: the call
\* stops at the first packet of the target stream, and it fails only at the
\* end of the container, which stays at its end from then on.
Readable(target, apq, vpq) ==
    {fut \in Futures(IF eof THEN 0 ELSE MaxPackets - container.read) :
        read_packet(target, apq, vpq, fut, 1, container).pos = Len(fut) + 1}

\* decode_audio's skip policy for a converted frame that starts at tick start
\* and ends at tick end.
SkipPolicy(start, end, sk) ==
    IF start >= sk THEN "enqueue"
    ELSE IF end < sk THEN "drop"
    ELSE "straddle"

\* audio_out_index = BPS * (int) ((ms->skip - start) * audio_sample_rate)
StraddleIndex(start, sk) == BPS * TruncDiv(sk - start, SubUnits)

\* media_close without the test of started.
CloseDeallocates_Always(s) == TRUE

\* media_close frees the state itself iff the decode thread was not started.
CloseDeallocates(s) == ~s

\* The wait at the end of a cycle decided on needs_decode alone.
CycleWaits_IgnoresQuit(nd, q) == ~nd

\* The wait at the end of a cycle decided on quit alone.
CycleWaits_IgnoresRequest(nd, q) == ~q

\* The decode loop waits at the end of a cycle unless the consumer asked for
\* more or close asked it to stop.
CycleWaits(nd, q) == ~(nd \/ q)

\* The copy takes len bytes whatever the frame holds.
CopyCount_Unclamped(l, avail) == l

\* media_read_audio copies what is asked for, at most what the frame holds.
CopyCount(l, avail) == IF l > avail THEN avail ELSE l

\* The frame is released one byte late.
FrameConsumed_OffByOne(index, nb) == index > nb * BPS

\* media_read_audio frees the output frame once it is used up.
FrameConsumed(index, nb) == index >= nb * BPS

\* media_start_end: (int) ((end - start) * audio_sample_rate), stored in an
\* unsigned int.
DurationOf(s, e) == TruncDiv(e - s, SubUnits) % UINT

\* The clamp of media_read_audio for duration d.
Remaining(d, readSamples) == ((d - readSamples) * BPS) % UINT
ClampLen(d, readSamples, l) ==
    IF d # 0 /\ l > Remaining(d, readSamples) THEN Remaining(d, readSamples) ELSE l

\* What the program does after it has used the freed MediaState is undefined:
\* the model records the use in uaf and follows the program no further.
Following == uaf = {}

\* deallocate(ms): frees the frames, the queues, the codec contexts, the
\* container, the lock, the condition and the state itself.  Threads blocked
\* in SDL_CondWait or holding the lock at that moment are using the object
\* that is being destroyed.  The fields of the freed block hold nothing any
\* more; started, ready and quit keep their last value as the history the
\* properties refer to.
InsideState ==
    (IF ppc \in {"p_wait", "p_woken", "p_fill"} THEN {"pull"} ELSE {})
    \cup (IF dpc \in {"d_wait", "d_woken", "d_finwait", "d_finwoken"}
         THEN {"decode"} ELSE {})

deallocate(by) ==
    /\ audio_out_frame' = NoFrame
    /\ audio_queue' = <<>>
    /\ audio_packet_queue' = <<>>
    /\ video_packet_queue' = <<>>
    /\ freed' = TRUE
    /\ audio_queue_samples' = 0 /\ audio_out_index' = 0
    /\ audio_duration' = 0 /\ audio_read_samples' = 0
    /\ needs_decode' = FALSE /\ skip' = 0
    /\ audio_finished' = FALSE /\ video_finished' = FALSE
    /\ audio_context' = FALSE /\ video_context' = FALSE
    /\ container' = [read |-> 0, audio |-> 0, video |-> 0]
    /\ eof' = FALSE /\ seekBase' = 0
    /\ deallocLog' = Append(deallocLog, [by |-> by, started |-> started, quit |-> quit])
    /\ uaf' = uaf \cup (InsideState \ {by}) \cup (IF freed THEN {by} ELSE {})

\* ------------------------------------------------------- caller thread

\* media_start_end is called at most once, before media_start.
media_start_end(s, e) ==
    /\ Following
    /\ ~startCalled /\ closeCalls = 0
    /\ skip = 0 /\ audio_duration = 0
    /\ skip' = s
    /\ audio_duration' = IF e # 0 THEN DurationOf(s, e) ELSE audio_duration
    /\ cfgDuration' = IF e # 0 THEN DurationOf(s, e) ELSE cfgDuration
    /\ UNCHANGED <<started, ready, needs_decode, quit, audio_finished,
                   video_finished, audio_context, video_context,
                   audio_packet_queue, video_packet_queue, audio_queue,
                   audio_queue_samples, audio_out_frame, audio_out_index,
                   audio_read_samples>>
    /\ UNCHANGED <<containerVars, lock, startCalled, closeCalls,
                   decodeVars, pullVars, ghostVars>>

\* media_start: SDL_CreateThread succeeds (ok) or fails.
media_start(ok) ==
    /\ Following
    /\ ~startCalled /\ closeCalls = 0
    /\ startCalled' = TRUE
    /\ started' = ok
    /\ dpc' = IF ok THEN "d_setup" ELSE dpc
    /\ UNCHANGED <<ready, needs_decode, quit, skip, audio_finished,
                   video_finished, audio_context, video_context,
                   audio_packet_queue, video_packet_queue, audio_queue,
                   audio_queue_samples, audio_out_frame, audio_out_index,
                   audio_duration, audio_read_samples>>
    /\ UNCHANGED <<containerVars, lock, closeCalls, cfgDuration,
                   converted_frame, pendingCycle, pullVars, ghostVars>>

\* media_close.  Not started: the caller deallocates.  Started: quit is set
\* and broadcast under the lock (the call is one step, taken when the lock
\* is free: ms->started does not change while it waits for the lock).
\* Reading ms->started after av_free(ms) yields whatever the freed memory
\* holds.
media_close ==
    /\ Following
    /\ closeCalls < MaxCloses
    /\ closeCalls' = closeCalls + 1
    /\ \E s \in (IF freed THEN BOOLEAN ELSE {started}) :
         IF CloseDeallocates(s)
         THEN /\ deallocate("close")
              /\ UNCHANGED <<quit, ppc, dpc>>
         ELSE /\ lock = "none"
              /\ quit' = TRUE
              /\ ppc' = WakePull(ppc)
              /\ dpc' = WakeDecode(dpc)
              /\ Touch("close")
              /\ UNCHANGED <<audio_out_frame, audio_queue, audio_packet_queue,
                             video_packet_queue, freed, deallocLog>>
              /\ UNCHANGED <<needs_decode, skip, audio_finished,
                             video_finished, audio_context, video_context,
                             audio_queue_samples, audio_out_index,
                             audio_duration, audio_read_samples,
                             containerVars>>
    /\ UNCHANGED <<started, ready, lock, startCalled, cfgDuration,
                   converted_frame, pendingCycle, len, rv, pulls, totalBytes>>

\* ------------------------------------------------------- decode thread

\* The duration, in samples, avformat reports for the container when it does
\* not estimate it from the bit rate.
ContainerDurations == {MaxPackets * FrameSamples}

\* av_seek_frame(ctx, -1, skip, AVSEEK_FLAG_BACKWARD): the container resumes
\* at an audio frame that starts at or before skip.
SeekBases(sk) == 0 .. (sk \div (FrameSamples * SubUnits))

\* decode_thread, lines 540-595: avformat_open_input and
\* avformat_find_stream_info succeed or fail; on success the codec contexts
\* are looked up, the duration is estimated and the container is positioned.
D_Setup ==
    /\ Following
    /\ dpc = "d_setup"
    /\ \/ /\ dpc' = "d_finish"
          /\ UNCHANGED <<audio_context, video_context, audio_duration, seekBase>>
       \/ /\ dpc' = "d_loop"
          /\ audio_context' \in BOOLEAN
          /\ video_context' \in BOOLEAN
          /\ \E exact \in BOOLEAN, d \in ContainerDurations :
               audio_duration' = IF ~exact THEN audio_duration
                                 ELSE IF d > 3600 * audio_sample_rate THEN 0 ELSE d
          /\ seekBase' \in (IF skip # 0 THEN SeekBases(skip) ELSE {0})
    /\ UNCHANGED <<started, ready, needs_decode, quit, skip, audio_finished,
                   video_finished, audio_packet_queue, video_packet_queue,
                   audio_queue, audio_queue_samples, audio_out_frame,
                   audio_out_index, audio_read_samples>>
    /\ UNCHANGED <<container, eof, lock, callerVars, converted_frame, pendingCycle, pullVars,
                   ghostVars>>

\* decode_thread, lines 597-601, and decode_audio, lines 383-386: the loop
\* test reads quit and audio_finished without the lock.
D_Loop ==
    /\ Following
    /\ dpc = "d_loop"
    /\ IF quit THEN dpc' = "d_finish" /\ UNCHANGED audio_finished
       ELSE IF audio_finished THEN dpc' = "d_video" /\ UNCHANGED audio_finished
       ELSE IF ~audio_context THEN dpc' = "d_video" /\ audio_finished' = TRUE
       ELSE dpc' = "d_audio" /\ UNCHANGED audio_finished
    /\ pendingCycle' = IF quit THEN pendingCycle ELSE FALSE
    /\ UNCHANGED <<started, ready, needs_decode, quit, skip, video_finished,
                   audio_context, video_context, audio_packet_queue,
                   video_packet_queue, audio_queue, audio_queue_samples,
                   audio_out_frame, audio_out_index, audio_duration,
                   audio_read_samples>>
    /\ UNCHANGED <<containerVars, lock, callerVars, converted_frame, pullVars,
                   ghostVars>>

\* decode_audio, lines 394-438: the fill test (audio_queue_samples is read
\* without the lock), then one packet is read and decoded.  The codec yields
\* a frame, yields none (or the resampler rejects it), or fails; the empty
\* sentinel yields no frame and ends the audio.
D_Audio ==
    /\ Following
    /\ dpc = "d_audio"
    /\ IF ~(audio_queue_samples < Target)
       THEN /\ dpc' = "d_video"
            /\ UNCHANGED <<container, eof, audio_packet_queue,
                           video_packet_queue, audio_finished, converted_frame>>
       ELSE \E fut \in Readable(audio_stream, audio_packet_queue, video_packet_queue) :
            LET r == read_packet(audio_stream, audio_packet_queue,
                                 video_packet_queue, fut, 1, container) IN
            /\ container' = r.cnt
            /\ eof' = (eof \/ ~r.ok)
            /\ audio_packet_queue' = r.apq
            /\ video_packet_queue' = r.vpq
            /\ IF ~r.ok
               THEN audio_finished' = TRUE /\ dpc' = "d_video"
                    /\ UNCHANGED converted_frame
               ELSE \E outcome \in {"frame", "none", "error"} :
                    /\ audio_finished' = IF outcome = "error" THEN TRUE
                                         ELSE audio_finished
                    /\ dpc' = CASE outcome = "frame" -> "d_policy"
                                [] outcome = "none" -> "d_audio"
                                [] OTHER -> "d_video"
                    /\ converted_frame' = IF outcome = "frame"
                                          THEN FrameOf(seekBase, r.pkt)
                                          ELSE converted_frame
    /\ UNCHANGED <<started, ready, needs_decode, quit, skip, video_finished,
                   audio_context, video_context, audio_queue,
                   audio_queue_samples, audio_out_frame, audio_out_index,
                   audio_duration, audio_read_samples>>
    /\ UNCHANGED <<seekBase, lock, callerVars, pullVars, ghostVars,
                   pendingCycle>>

\* decode_audio, lines 440-460: the skip policy, under the lock.
D_Policy ==
    /\ Following
    /\ dpc = "d_policy" /\ lock = "none"
    /\ LET f == converted_frame
           what == SkipPolicy(f.start, FrameEnd(f), skip) IN
       /\ audio_queue_samples' = IF what = "enqueue"
                                 THEN audio_queue_samples + f.nb_samples
                                 ELSE audio_queue_samples
       /\ audio_queue' = IF what = "enqueue" THEN enqueue_frame(audio_queue, f)
                         ELSE audio_queue
       /\ audio_out_frame' = IF what = "straddle" THEN f ELSE audio_out_frame
       /\ audio_out_index' = IF what = "straddle" THEN StraddleIndex(f.start, skip)
                             ELSE audio_out_index
    /\ converted_frame' = NoFrame
    /\ dpc' = "d_audio"
    /\ UNCHANGED <<started, ready, needs_decode, quit, skip, audio_finished,
                   video_finished, audio_context, video_context,
                   audio_packet_queue, video_packet_queue, audio_duration,
                   audio_read_samples>>
    /\ UNCHANGED <<containerVars, lock, callerVars, pullVars, ghostVars,
                   pendingCycle>>

\* decode_video, lines 528-530, with decode_video_frame, lines 471-515: n
\* packets are read and decoded (their output is discarded), and the call
\* after them ends the loop, on the empty sentinel or on a codec error.
RECURSIVE decode_video_frames(_, _, _, _, _, _)
decode_video_frames(apq, vpq, ctr, pos, cnt, n) ==
    LET r == read_packet(video_stream, apq, vpq, ctr, pos, cnt) IN
    IF ~r.ok \/ n = 0 THEN r
    ELSE decode_video_frames(r.apq, r.vpq, ctr, r.pos, r.cnt, n - 1)

\* decode_thread, line 603, and decode_video, lines 518-532: the video
\* stream is decoded until video_finished.  Only the decode thread touches
\* what this reads and writes.
D_Video ==
    /\ Following
    /\ dpc = "d_video"
    /\ dpc' = "d_cycle"
    /\ video_finished' = TRUE
    /\ IF video_finished \/ ~video_context
       THEN UNCHANGED <<container, eof, audio_packet_queue, video_packet_queue>>
       ELSE \E fut \in Futures(IF eof THEN 0 ELSE MaxPackets - container.read),
               n \in 0 .. MaxPackets :
            LET r == decode_video_frames(audio_packet_queue, video_packet_queue,
                                         fut, 1, container, n) IN
            /\ r.pos = Len(fut) + 1
            /\ container' = r.cnt
            /\ eof' = (eof \/ ~r.ok)
            /\ audio_packet_queue' = r.apq
            /\ video_packet_queue' = r.vpq
    /\ UNCHANGED <<started, ready, needs_decode, quit, skip, audio_finished,
                   audio_context, video_context, audio_queue,
                   audio_queue_samples, audio_out_frame, audio_out_index,
                   audio_duration, audio_read_samples>>
    /\ UNCHANGED <<seekBase, lock, callerVars, converted_frame, pendingCycle, pullVars,
                   ghostVars>>

\* decode_thread, lines 607-620: end of a production cycle.
D_Cycle ==
    /\ Following
    /\ dpc = "d_cycle" /\ lock = "none"
    /\ ready' = TRUE
    /\ ppc' = IF ~ready THEN WakePull(ppc) ELSE ppc
    /\ IF CycleWaits(needs_decode, quit)
       THEN dpc' = "d_wait" /\ UNCHANGED <<needs_decode, pendingCycle>>
       ELSE /\ dpc' = "d_loop"
            /\ needs_decode' = FALSE
            /\ pendingCycle' = (pendingCycle \/ needs_decode)
    /\ UNCHANGED <<started, quit, skip, audio_finished, video_finished,
                   audio_context, video_context, audio_packet_queue,
                   video_packet_queue, audio_queue, audio_queue_samples,
                   audio_out_frame, audio_out_index, audio_duration,
                   audio_read_samples>>
    /\ UNCHANGED <<containerVars, lock, callerVars, converted_frame, len, rv,
                   pulls, totalBytes, ghostVars>>

\* decode_thread, lines 615-620, with line 618 clearing ready in place of
\* needs_decode.
D_Woken_ClearsReady ==
    /\ Following
    /\ dpc = "d_woken" /\ lock = "none"
    /\ ready' = FALSE
    /\ pendingCycle' = (pendingCycle \/ needs_decode)
    /\ dpc' = "d_loop"
    /\ UNCHANGED <<started, needs_decode, quit, skip, audio_finished,
                   video_finished, audio_context, video_context,
                   audio_packet_queue, video_packet_queue, audio_queue,
                   audio_queue_samples, audio_out_frame, audio_out_index,
                   audio_duration, audio_read_samples>>
    /\ UNCHANGED <<containerVars, lock, callerVars, converted_frame, pullVars,
                   ghostVars>>

\* decode_thread, lines 615-620: SDL_CondWait returned with the lock.
D_Woken ==
    /\ Following
    /\ dpc = "d_woken" /\ lock = "none"
    /\ needs_decode' = FALSE
    /\ pendingCycle' = (pendingCycle \/ needs_decode)
    /\ dpc' = "d_loop"
    /\ UNCHANGED <<started, ready, quit, skip, audio_finished, video_finished,
                   audio_context, video_context, audio_packet_queue,
                   video_packet_queue, audio_queue, audio_queue_samples,
                   audio_out_frame, audio_out_index, audio_duration,
                   audio_read_samples>>
    /\ UNCHANGED <<containerVars, lock, callerVars, converted_frame, pullVars,
                   ghostVars>>

\* decode_thread, lines 629-641: the exit path, entered from the loop or
\* from a failed setup, and resumed when SDL_CondWait returns.
D_Finish ==
    /\ Following
    /\ dpc \in {"d_finish", "d_finwoken"} /\ lock = "none"
    /\ ready' = TRUE
    /\ ppc' = IF ~ready THEN WakePull(ppc) ELSE ppc
    /\ dpc' = IF quit THEN "d_dealloc" ELSE "d_finwait"
    /\ UNCHANGED <<started, needs_decode, quit, skip, audio_finished,
                   video_finished, audio_context, video_context,
                   audio_packet_queue, video_packet_queue, audio_queue,
                   audio_queue_samples, audio_out_frame, audio_out_index,
                   audio_duration, audio_read_samples>>
    /\ UNCHANGED <<containerVars, lock, callerVars, converted_frame, pendingCycle, len, rv,
                   pulls, totalBytes, ghostVars>>

\* decode_thread, line 643.
D_Dealloc ==
    /\ Following
    /\ dpc = "d_dealloc"
    /\ deallocate("decode")
    /\ dpc' = "dead"
    /\ UNCHANGED <<started, ready, quit, lock, callerVars, converted_frame, pendingCycle, pullVars>>

\* ------------------------------------------------------- audio callback

\* media_read_audio is entered with a byte count; the handle is still open.
P_Call(l) ==
    /\ Following
    /\ ppc = "idle" /\ pulls < MaxPulls /\ closeCalls = 0
    /\ ppc' = "p_lock"
    /\ len' = l
    /\ rv' = 0
    /\ pulls' = pulls + 1
    /\ UNCHANGED <<mediaVars, containerVars, lock, callerVars, decodeVars,
                   totalBytes, ghostVars>>

\* media_read_audio without line 658.
DurationInPull_Kept(d) == d

\* media_read_audio, line 658: the value audio_duration has when line 660
\* tests it.
DurationInPull(d) == 0

\* media_read_audio, lines 650-670: the lock is taken (or taken again when
\* SDL_CondWait returns); without ready the thread waits, with ready the
\* duration clamp is applied.  On a freed state the call uses the destroyed
\* mutex: the use is recorded and the call is followed no further.
P_Lock ==
    /\ Following
    /\ ppc \in {"p_lock", "p_woken"} /\ lock = "none"
    /\ Touch("pull")
    /\ IF freed
       THEN UNCHANGED <<ppc, lock, len, audio_duration, audio_finished>>
       ELSE IF ~ready
       THEN /\ ppc' = "p_wait"
            /\ UNCHANGED <<lock, len, audio_duration, audio_finished>>
       ELSE LET d == DurationInPull(audio_duration) IN
            /\ ppc' = "p_fill"
            /\ lock' = "pull"
            /\ audio_duration' = d
            /\ len' = ClampLen(d, audio_read_samples, len)
            /\ audio_finished' = IF d # 0 /\ Remaining(d, audio_read_samples) = 0
                                 THEN TRUE ELSE audio_finished
    /\ UNCHANGED <<started, ready, needs_decode, quit, skip, video_finished,
                   audio_context, video_context, audio_packet_queue,
                   video_packet_queue, audio_queue, audio_queue_samples,
                   audio_out_frame, audio_out_index, audio_read_samples>>
    /\ UNCHANGED <<containerVars, callerVars, decodeVars, rv, pulls,
                   totalBytes, freed, deallocLog>>

\* media_read_audio, lines 672-709: one iteration of the fill loop that
\* copies from a frame.
P_Fill ==
    /\ Following
    /\ ppc = "p_fill" /\ len # 0
    /\ LET dq == dequeue_frame(audio_queue)
           fresh == audio_out_frame = NoFrame
           f == IF fresh THEN dq.rv ELSE audio_out_frame
           index == IF fresh THEN 0 ELSE audio_out_index
           avail == f.nb_samples * BPS - index
           count == CopyCount(len, avail)
       IN
       /\ f # NoFrame
       /\ audio_queue' = IF fresh THEN dq.fq ELSE audio_queue
       /\ audio_read_samples' = (audio_read_samples + count \div BPS) % UINT
       /\ audio_queue_samples' = audio_queue_samples - count \div BPS
       /\ rv' = rv + count
       /\ len' = len - count
       /\ IF FrameConsumed(index + count, f.nb_samples)
          THEN audio_out_frame' = NoFrame /\ audio_out_index' = 0
          ELSE audio_out_frame' = f /\ audio_out_index' = index + count
    /\ Touch("pull")
    /\ UNCHANGED <<started, ready, needs_decode, quit, skip, audio_finished,
                   video_finished, audio_context, video_context,
                   audio_packet_queue, video_packet_queue, audio_duration>>
    /\ UNCHANGED <<containerVars, lock, callerVars, decodeVars, ppc, pulls,
                   totalBytes, freed, deallocLog>>

\* media_read_audio, lines 672-681 and 711-719: the loop ends (len is used up,
\* or there is no frame left), the decoder is signalled if something was
\* consumed, the lock is released and rv returned; the locals len and rv are
\* gone.
P_Return ==
    /\ Following
    /\ ppc = "p_fill"
    /\ len = 0 \/ (audio_out_frame = NoFrame /\ audio_queue = <<>>)
    /\ audio_out_index' = IF len # 0 THEN 0 ELSE audio_out_index
    /\ needs_decode' = IF rv # 0 THEN TRUE ELSE needs_decode
    /\ dpc' = IF rv # 0 THEN WakeDecode(dpc) ELSE dpc
    /\ lock' = "none"
    /\ ppc' = "idle"
    /\ totalBytes' = totalBytes + rv
    /\ len' = 0 /\ rv' = 0
    /\ Touch("pull")
    /\ UNCHANGED <<started, ready, quit, skip, audio_finished, video_finished,
                   audio_context, video_context, audio_packet_queue,
                   video_packet_queue, audio_queue, audio_queue_samples,
                   audio_out_frame, audio_duration, audio_read_samples>>
    /\ UNCHANGED <<containerVars, callerVars, converted_frame, pendingCycle,
                   pulls, freed, deallocLog>>

\* ------------------------------------------------------- specification

CallerStep ==
    \/ \E s \in Skips : \E e \in Ends(s) : media_start_end(s, e)
    \/ \E ok \in BOOLEAN : media_start(ok)
    \/ media_close

DecodeStep ==
    \/ D_Setup \/ D_Loop \/ D_Audio \/ D_Policy
    \/ D_Video \/ D_Cycle \/ D_Woken \/ D_Finish \/ D_Dealloc

PullStep ==
    \/ \E l \in PullLens : P_Call(l)
    \/ P_Lock \/ P_Fill \/ P_Return

Next == CallerStep \/ DecodeStep \/ PullStep

Spec == Init /\ [][Next]_vars

\* The scheduler runs a thread that can take a step: the decode thread, and
\* a pull that has been entered.  Nothing obliges the caller to call.
PullInCall == P_Lock \/ P_Fill \/ P_Return

FairSpec == Spec /\ WF_vars(DecodeStep) /\ WF_vars(PullInCall)

\* Only the audio callback is scheduled; the decode thread may stall.
PullFairSpec == Spec /\ WF_vars(PullInCall)

\* ------------------------------------------------------- properties

\* C1 (duration bound): with a nonzero duration D configured by
\* media_start_end, the bytes returned by all pulls together never exceed
\* D * BPS.
C1_DurationBound == cfgDuration # 0 => totalBytes <= cfgDuration * BPS

\* The time, in ticks, of the sample the next copy of the fill loop starts in.
CopiedTimestamp ==
    LET fresh == audio_out_frame = NoFrame
        f == IF fresh THEN Head(audio_queue) ELSE audio_out_frame
        index == IF fresh THEN 0 ELSE audio_out_index
    IN f.start + (index \div BPS) * SubUnits

\* C2 (skip): every sample a pull delivers has a timestamp at or after skip,
\* whether or not skip falls on a sample boundary.
C2_SkipRespected == [][rv' > rv => CopiedTimestamp >= skip]_vars

\* C3 (close at any time): neither the decode thread nor a pull ever uses or
\* waits on state that has been freed.
C3_CloseSafe == "pull" \notin uaf /\ "decode" \notin uaf

\* C4 (idempotent close): after any number of closes the state has been
\* freed at most once and no close has used the freed state.
C4_IdempotentClose == Len(deallocLog) <= 1 /\ "close" \notin uaf

DeallocByOwner(e) ==
    \/ e.by = "close" /\ ~e.started
    \/ e.by = "decode" /\ e.started /\ e.quit

DecodeFreed == \E i \in 1 .. Len(deallocLog) : deallocLog[i].by = "decode"

\* C6 (teardown): once the decode thread is started and quit is set, the
\* decode thread eventually leaves its loop or its wait, frees the state and
\* ends.
C6_TeardownLiveness == (started /\ quit) ~> (dpc = "dead" /\ DecodeFreed)

C6_Witness == dpc = "dead" /\ DecodeFreed /\ quit /\ totalBytes > 0

\* What the fill loop has left to do: bytes asked for, and frames to visit.
PullMeasure ==
    len + Len(audio_queue) + (IF audio_out_frame = NoFrame THEN 0 ELSE 1)

\* C7 (a pull blocks only on ready): with ready set a pull is never waiting
\* on the condition; every iteration of the fill loop uses up a byte asked
\* for or a frame; and a pull in progress returns whether or not the decode
\* thread makes progress, as long as the state is not freed under it.
C7_PullBlocksOnlyOnReady ==
    /\ [](ready => ppc # "p_wait")
    /\ [][P_Fill => PullMeasure' < PullMeasure]_vars
    /\ (ready /\ ppc # "idle") ~> (ppc = "idle" \/ freed)

C7_Witness ==
    /\ ppc = "p_fill" /\ ready /\ ~freed
    /\ len > 0 /\ audio_queue = <<>> /\ audio_out_frame = NoFrame

\* C8 (a blocked pull is released): the decode thread on its exit path has
\* set ready before it waits or frees, and after close there is no pull left
\* waiting for ready with no decode thread to set it.
C8_PullUnblockedByClose ==
    /\ dpc \in {"d_finwait", "d_finwoken", "d_dealloc", "dead"} => ready
    /\ ~(ppc = "p_wait" /\ closeCalls > 0 /\ dpc \in {"none", "dead"})

ExitPath == {"d_finish", "d_finwait", "d_finwoken", "d_dealloc", "dead"}

\* C9 as stated (no lost wakeup): the decode thread never sleeps in its loop
\* with needs_decode set, and a needs_decode it cleared is always followed by
\* a production cycle.
C9_EveryRequestGetsACycle ==
    /\ ~(dpc = "d_wait" /\ needs_decode)
    /\ ~(pendingCycle /\ dpc \in ExitPath)

\* C9, amended: a pull that returns bytes sets needs_decode and wakes the
\* decode thread; the thread never sleeps in its loop with needs_decode set;
\* a set needs_decode is eventually cleared and followed by a production
\* cycle, unless quit is set, and then the thread takes its exit path.
C9_NoLostWakeup ==
    /\ [](~(dpc = "d_wait" /\ needs_decode))
    /\ [][(P_Return /\ rv # 0) => (needs_decode' /\ dpc' # "d_wait")]_vars
    /\ []((pendingCycle /\ dpc \in ExitPath) => quit)
    /\ needs_decode ~> (~needs_decode \/ quit)
    /\ pendingCycle ~> (~pendingCycle \/ quit)

C9_Witness == dpc = "d_woken" /\ needs_decode /\ ~quit /\ totalBytes > 0

\* Whole samples of the output frame that have not been copied yet.
OutFrameRemaining ==
    IF audio_out_frame = NoFrame THEN 0
    ELSE (audio_out_frame.nb_samples * BPS - audio_out_index) \div BPS

\* C10 (queue accounting): whenever the lock is free, audio_queue_samples is
\* the samples in audio_queue plus those not yet consumed of the output
\* frame, and so is never negative.
C10_QueueAccounting ==
    (lock = "none" /\ ~freed) =>
        /\ audio_queue_samples = SumSamples(audio_queue) + OutFrameRemaining
        /\ audio_queue_samples >= 0

\* C11 (setup failure): when the container cannot be opened or probed, the
\* decode thread waiting on its exit path has set ready, audio_finished and
\* video_finished are both true, and no pull has returned a byte.
C11_SetupFailure ==
    (dpc = "d_finwait" /\ ~quit) =>
        (ready /\ audio_finished /\ video_finished /\ totalBytes = 0)

\* Bytes of PCM held for the consumer, and bytes handed to it so far.
ResidentBytes ==
    SumSamples(audio_queue) * BPS
    + (IF audio_out_frame = NoFrame THEN 0
       ELSE audio_out_frame.nb_samples * BPS - audio_out_index)

DeliveredBytes == totalBytes + rv

Buffer ==
    (IF audio_out_frame = NoFrame THEN <<>> ELSE <<audio_out_frame>>)
    \o audio_queue

HeadOffset == IF audio_out_frame = NoFrame THEN 0 ELSE audio_out_index

BufferOrdered ==
    \A i \in 1 .. Len(Buffer) - 1 : Buffer[i].start < Buffer[i + 1].start

C15_NoProductionAfterQuit ==
    [][(quit /\ DecodeStep) =>
          /\ Len(audio_queue') <= Len(audio_queue)
          /\ audio_out_frame' \in {audio_out_frame, NoFrame}
          /\ Len(audio_packet_queue') <= Len(audio_packet_queue)
          /\ Len(video_packet_queue') <= Len(video_packet_queue)]_vars

\* The fields the lock protects.
LockedFields ==
    <<ready, needs_decode, quit, audio_finished, audio_queue, audio_out_frame,
      audio_out_index, audio_queue_samples, audio_read_samples>>

\* C16 (lock discipline): between start and deallocation, every read and
\* write of ready, needs_decode, quit, audio_finished, the PCM queue,
\* audio_out_frame, audio_out_index, audio_queue_samples and
\* audio_read_samples happens while the accessing thread holds the lock.
\* While the audio callback holds the lock no other thread changes one of
\* these fields, and the decode thread's loop test (which reads quit and
\* audio_finished) and fill test (which reads audio_queue_samples and may
\* write audio_finished) run only when the lock is theirs to take.
C16_LockDiscipline ==
    /\ [][(lock = "pull" /\ ~freed /\ ~freed' /\ LockedFields' # LockedFields)
             => PullStep]_vars
    /\ [][((D_Loop \/ D_Audio) /\ ~freed) => lock = "none"]_vars

\* C17 (output-frame index bound): whenever the lock is free and
\* audio_out_frame is present, 0 <= audio_out_index < nb_samples * BPS; a
\* frame whose end time equals skip exactly is discarded, not installed.
C17_OutIndexBound ==
    (lock = "none" /\ ~freed /\ audio_out_frame # NoFrame) =>
        /\ 0 <= audio_out_index
        /\ audio_out_index < audio_out_frame.nb_samples * BPS

\* ------------------------------------------------- read_packet on its own

\* What av_read_frame may return during one call of read_packet when the
\* container holds up to MaxRoute packets.
RouteReadable(target) ==
    {fut \in Futures(IF eof THEN 0 ELSE MaxRoute - container.read) :
        read_packet(target, audio_packet_queue, video_packet_queue, fut, 1,
                    container).pos = Len(fut) + 1}

\* One call of read_packet for the target stream's queue.
R_Read(target) ==
    /\ \E fut \in RouteReadable(target) :
         LET r == read_packet(target, audio_packet_queue, video_packet_queue,
                              fut, 1, container) IN
         /\ container' = r.cnt
         /\ eof' = (eof \/ ~r.ok)
         /\ audio_packet_queue' = r.apq
         /\ video_packet_queue' = r.vpq
    /\ UNCHANGED <<started, ready, needs_decode, quit, skip, audio_finished,
                   video_finished, audio_context, video_context, audio_queue,
                   audio_queue_samples, audio_out_frame, audio_out_index,
                   audio_duration, audio_read_samples>>
    /\ UNCHANGED <<seekBase, lock, callerVars, decodeVars, pullVars, ghostVars>>

\* decode_audio's call, line 396.
R_Audio == R_Read(audio_stream)
\* decode_video_frame's call, line 477.
R_Video == R_Read(video_stream)

RouteNext == R_Audio \/ R_Video
RouteSpec == Init /\ [][RouteNext]_vars

\* The packets of stream t that read_packet has already returned.
Consumed(t) ==
    IF t = audio_stream THEN container.audio - Len(audio_packet_queue)
    ELSE container.video - Len(video_packet_queue)

\* Queue q holds the last Len(q) of the total packets of stream t that the
\* container has returned, oldest first.
InOrder(q, t, total) ==
    /\ Len(q) <= total
    /\ \A i \in 1 .. Len(q) :
         q[i] = [stream_index |-> t, pts |-> total - Len(q) + i - 1]

QueuesInOrder ==
    /\ InOrder(audio_packet_queue, audio_stream, container.audio)
    /\ InOrder(video_packet_queue, video_stream, container.video)
    /\ container.audio + container.video <= container.read

\* What one call of read_packet for stream t returns when av_read_frame
\* yields fut.
ReadReturns(t, fut) ==
    LET r == read_packet(t, audio_packet_queue, video_packet_queue, fut, 1,
                         container)
        tq == IF t = audio_stream THEN audio_packet_queue
              ELSE video_packet_queue
    IN
    /\ r.ok => r.pkt = [stream_index |-> t, pts |-> Consumed(t)]
    /\ tq # <<>> => (r.ok /\ r.pkt = Head(tq) /\ r.cnt = container)
    /\ ~r.ok => /\ r.pkt = NoPacket
                /\ tq = <<>>
                /\ r.pos = Len(fut) + 1
                /\ r.cnt.read = container.read + Len(fut)
                /\ \A i \in 1 .. Len(fut) : fut[i] # t

\* C18 (demuxer routing): read_packet returns the oldest packet of the target
\* stream not yet returned; packets read from the container on the way go to
\* the audio or the video packet queue by stream_index and any other packet
\* is freed; each queue holds its packets in container order and none is
\* lost; read_packet fails, returning the empty sentinel, only when the
\* target queue is empty and the container reports its end.
C18_DemuxerRouting ==
    /\ QueuesInOrder
    /\ \A t \in {audio_stream, video_stream} :
         \A fut \in Futures(IF eof THEN 0 ELSE MaxRoute - container.read) :
            ReadReturns(t, fut)

C18_Witness ==
    /\ Len(audio_packet_queue) >= 2
    /\ Consumed(video_stream) > 0
    /\ container.read > container.audio + container.video

\* C19 (latched flags): up to deallocation ready, quit, audio_finished and
\* video_finished never go from true back to false, and ready goes from
\* false to true only by a step of the decode thread (hence exactly once).
C19_LatchedFlags ==
    /\ [][~freed' =>
            /\ ready => ready'
            /\ quit => quit'
            /\ audio_finished => audio_finished'
            /\ video_finished => video_finished']_vars
    /\ [][(~ready /\ ready') => (DecodeStep /\ dpc \in {"d_cycle", "d_finish"})]_vars

C19_Witness ==
    /\ ready /\ quit /\ audio_finished /\ video_finished
    /\ ~freed /\ dpc = "d_dealloc" /\ totalBytes > 0

\* ------------------------------------- a consumer that pulls half samples

\* media_read_audio is entered with a len that is not a multiple of BPS.
P_CallOdd ==
    /\ Following
    /\ ppc = "idle" /\ pulls < MaxOddPulls /\ closeCalls = 0
    /\ ppc' = "p_lock"
    /\ len' = BPS \div 2
    /\ rv' = 0
    /\ pulls' = pulls + 1
    /\ UNCHANGED <<mediaVars, containerVars, lock, callerVars, decodeVars,
                   totalBytes, ghostVars>>

ConsumerNext ==
    \/ CallerStep \/ DecodeStep
    \/ P_CallOdd \/ P_Lock \/ P_Fill \/ P_Return

ConsumerSpec == Init /\ [][ConsumerNext]_vars

\* Nothing is left for a pull to copy.
BufferEmpty == audio_out_frame = NoFrame /\ audio_queue = <<>>

\* C20 (no permanent starvation): while quit and audio_finished are false
\* and nothing is left for a pull to copy, the decode thread is not waiting
\* on the condition and is not about to skip production because
\* audio_queue_samples has reached the target; this for pulls of any positive
\* length, multiples of 4 bytes or not.
C20_NoStarvation ==
    (~quit /\ ~audio_finished /\ ~freed /\ lock = "none" /\ BufferEmpty) =>
        /\ dpc # "d_wait"
        /\ ~(dpc = "d_audio" /\ audio_queue_samples >= Target)

============================================================================
